---- MODULE Spec2Model ----
(***************************************************************************)
(* CopyCuTTer (src/src/copycutter/text_question.py): a Textual form built  *)
(* from a cookiecutter.json or copier.yml schema, whose answers are handed *)
(* to the cookiecutter or copier render backend.                           *)
(*                                                                         *)
(* Python values are encoded as follows.                                   *)
(*   dict          a sequence of <<key, value>> pairs with distinct keys,  *)
(*                 in insertion order (Python dicts keep it)               *)
(*   str           a TLA+ string; Chars(s) spells the strings whose first  *)
(*                 character the code inspects                             *)
(*   None / BLANK  the `blank` flag of a Select value                      *)
(*   an exception  the name of its class, carried in a result field        *)
(***************************************************************************)
EXTENDS Naturals, Sequences, FiniteSets, TLC

VARIABLES backend, schema, stage, widgets, last

vars == <<backend, schema, stage, widgets, last>>

(***************************************************************************)
(* Bounds of the model.                                                    *)
(***************************************************************************)
\* longest declared option list / choices mapping / label table
MaxOpts == 2

(***************************************************************************)
(* Python dict and list primitives.                                        *)
(***************************************************************************)
Min(a, b) == IF a < b THEN a ELSE b

Prefix(s, n) == SubSeq(s, 1, Min(n, Len(s)))

DictHas(d, k) == \E i \in 1..Len(d) : d[i][1] = k

\* d[k], for a key that is present
DictGet(d, k) == d[CHOOSE i \in 1..Len(d) : d[i][1] = k][2]

\* d[k] = v: an existing key keeps its position and takes the new value
DictSet(d, k, v) ==
    IF DictHas(d, k)
    THEN [i \in 1..Len(d) |-> IF d[i][1] = k THEN <<k, v>> ELSE d[i]]
    ELSE Append(d, <<k, v>>)

\* del d[k], for a key that is present
DictDel(d, k) == SelectSeq(d, LAMBDA p : p[1] # k)

\* list(d.keys()), list(d.values())
DictKeys(d) == [i \in 1..Len(d) |-> d[i][1]]

DictValues(d) == [i \in 1..Len(d) |-> d[i][2]]

\* InvMap without the inversion: {k: v for k, v in d.items()}
InvMapNotInverted(d) == d

RECURSIVE InvertFrom(_, _, _)
InvertFrom(d, i, acc) ==
    IF i > Len(d) THEN acc
    ELSE InvertFrom(d, i + 1, DictSet(acc, d[i][2], d[i][1]))

\* {v: k for k, v in d.items()}
InvMap(d) == InvertFrom(d, 1, <<>>)

SeqToSet(s) == {s[i] : i \in 1..Len(s)}

(***************************************************************************)
(* JSON / YAML values of a schema file.                                    *)
(***************************************************************************)
Str(s) == [t |-> "str", s |-> s, l |-> <<>>, d |-> <<>>]

Lst(l) == [t |-> "list", s |-> "", l |-> l, d |-> <<>>]

Map(d) == [t |-> "dict", s |-> "", l |-> <<>>, d |-> d]

\* a number or a boolean: neither str, list nor dict
Other == [t |-> "other", s |-> "", l |-> <<>>, d |-> <<>>]

\* the spelling of the key strings (prompt[0][0] reads the first character)
Chars(s) ==
    CASE s = "_extensions" -> <<"_", "e">>
      [] s = "_subdirectory" -> <<"_", "s">>
      [] s = "project_name" -> <<"p", "r">>
      [] s = "author" -> <<"a", "u">>
      [] s = "license" -> <<"l", "i">>
      [] s = "name" -> <<"n", "a">>

(***************************************************************************)
(* The widgets.                                                            *)
(***************************************************************************)
NoExtras == [some |-> FALSE, map |-> <<>>]

Extras(m) == [some |-> TRUE, map |-> m]

\* TextQuestion.__init__: Input(placeholder=placeholder) starts with value ""
TextQuestion(placeholder, property_val, prompt) ==
    [cls |-> "TextQuestion", placeholder |-> placeholder,
     property_val |-> property_val, prompt |-> prompt,
     lines |-> <<>>, extras |-> NoExtras, value |-> "", blank |-> FALSE]

\* SelectQuestion.__init__: Select((line, line) for line in lines) starts
\* with no selection
SelectQuestion(lines, property_val, prompt, extras) ==
    [cls |-> "SelectQuestion", placeholder |-> "",
     property_val |-> property_val, prompt |-> prompt,
     lines |-> lines, extras |-> extras, value |-> "", blank |-> TRUE]

\* SelectOptions of a Select built with allow_blank=False: no blank entry
SelectOptionsNoBlank(w) == w.lines

\* Select._options of textual: Select(options) is built with the default
\* allow_blank=True, so the list opens with the blank entry ("", BLANK) and
\* the (line, line) pairs follow; only the prompts (element [0]) are read
SelectOptions(w) == <<"">> \o w.lines

(***************************************************************************)
(* Reading and normalising the schema.                                     *)
(*                                                                         *)
(* A cookiecutter.json is [hasPrompts, prompts, items]: items is the       *)
(* top-level dict without its "__prompts__" key, prompts the value of that *)
(* key.  A copier.yml is the dict of its top-level keys.                   *)
(***************************************************************************)
\* read_cookie_cutter: the dict itself when it has "__prompts__", its items
\* otherwise
read_cookie_cutter(handle) ==
    IF handle.hasPrompts
    THEN [isDict |-> TRUE, prompts |-> handle.prompts, items |-> handle.items]
    ELSE [isDict |-> FALSE, prompts |-> <<>>, items |-> handle.items]

Parsed(exc, ws) == [exc |-> exc, ws |-> ws]

\* the label table of a dict-shaped prompts entry turned into a Choice
LabelTableQuestion(prompt, entry) ==
    LET tmp == DictDel(entry.d, "__prompt__")
        inv_map == InvMap(tmp)
    IN  SelectQuestion(DictValues(tmp), prompt,
                       DictGet(entry.d, "__prompt__"), Extras(inv_map))

\* the text a prompts entry gives a Label
PromptText(entry) == IF entry.t = "str" THEN entry.s ELSE entry.d

RECURSIVE ParseWithPrompts(_, _, _)
ParseWithPrompts(template, i, ws) ==
    IF i > Len(template.prompts) THEN Parsed("", ws)
    ELSE
      LET prompt == template.prompts[i][1]
          entry == template.prompts[i][2]
      IN  IF ~DictHas(template.items, prompt) THEN Parsed("KeyError", ws)
          ELSE
            LET v == DictGet(template.items, prompt)
            IN  IF v.t = "str"
                THEN ParseWithPrompts(template, i + 1,
                       Append(ws, TextQuestion(v.s, prompt, PromptText(entry))))
                ELSE IF v.t = "list"
                THEN IF entry.t = "dict"
                     THEN IF ~DictHas(entry.d, "__prompt__")
                          THEN Parsed("KeyError", ws)
                          ELSE ParseWithPrompts(template, i + 1,
                                 Append(ws, LabelTableQuestion(prompt, entry)))
                     ELSE ParseWithPrompts(template, i + 1,
                            Append(ws, SelectQuestion(v.l, prompt, PromptText(entry), NoExtras)))
                ELSE ParseWithPrompts(template, i + 1, ws)

\* IsPrivate reading the last character of the key instead of the first
IsPrivateLastChar(key) == Chars(key)[Len(Chars(key))] = "_"

\* prompt[0][0] == "_": the key is skipped
IsPrivate(key) == Chars(key)[1] = "_"

RECURSIVE ParseItems(_, _, _)
ParseItems(items, i, ws) ==
    IF i > Len(items) THEN Parsed("", ws)
    ELSE
      LET prompt == items[i]
      IN  IF ~IsPrivate(prompt[1])
          THEN IF prompt[2].t = "str"
               THEN ParseItems(items, i + 1,
                      Append(ws, TextQuestion(prompt[2].s, prompt[1], prompt[1])))
               ELSE IF prompt[2].t = "list"
               THEN ParseItems(items, i + 1,
                      Append(ws, SelectQuestion(prompt[2].l, prompt[1], prompt[1], NoExtras)))
               ELSE ParseItems(items, i + 1, ws)
          ELSE ParseItems(items, i + 1, ws)

parse_cookie_cutter(handle) ==
    LET template == read_cookie_cutter(handle)
    IN  IF template.isDict
        THEN ParseWithPrompts(template, 1, <<>>)
        ELSE ParseItems(template.items, 1, <<>>)

\* q._input.value = default, on a freshly built TextQuestion
Prefilled(q, default) == [q EXCEPT !.value = default]

\* CopierSelect handing the inverse of a choices mapping to the Choice, as
\* the legacy parser does with a label table
CopierSelectInverted(key, rec) ==
    LET choices == DictGet(rec, "choices")
        prompt == IF DictHas(rec, "help") THEN DictGet(rec, "help").s ELSE key
    IN  IF choices.t = "dict"
        THEN SelectQuestion(DictKeys(choices.d), key, prompt,
                            Extras(InvMap(choices.d)))
        ELSE SelectQuestion(choices.l, key, prompt, NoExtras)

\* the Choice of a record with "choices"
CopierSelect(key, rec) ==
    LET choices == DictGet(rec, "choices")
    IN  IF choices.t = "dict"
        THEN IF DictHas(rec, "help")
             THEN SelectQuestion(DictKeys(choices.d), key,
                                 DictGet(rec, "help").s, Extras(choices.d))
             ELSE SelectQuestion(DictKeys(choices.d), key, key, Extras(choices.d))
        ELSE IF DictHas(rec, "help")
             THEN SelectQuestion(choices.l, key, DictGet(rec, "help").s, NoExtras)
             ELSE SelectQuestion(choices.l, key, key, NoExtras)

\* the FreeText of a record without "choices"
CopierText(key, rec) ==
    IF DictHas(rec, "help")
    THEN IF DictHas(rec, "placeholder")
         THEN IF DictHas(rec, "default")
              THEN Prefilled(TextQuestion(DictGet(rec, "placeholder").s, key,
                                          DictGet(rec, "help").s),
                             DictGet(rec, "default").s)
              ELSE TextQuestion(DictGet(rec, "placeholder").s, key,
                                DictGet(rec, "help").s)
         ELSE IF DictHas(rec, "default")
              THEN Prefilled(TextQuestion("", key, DictGet(rec, "help").s),
                             DictGet(rec, "default").s)
              ELSE TextQuestion("", key, DictGet(rec, "help").s)
    ELSE TextQuestion("", key, key)

\* what the `"field" in prompt[1]` tests see of a record: the dict itself;
\* nothing in a str or a list, where `in` is a substring or membership test
\* that no field name passes on the strings and lists of the model
FieldsOf(record) == IF record.t = "dict" THEN record.d ELSE <<>>

RECURSIVE ParseCopierItems(_, _, _)
ParseCopierItems(items, i, ws) ==
    IF i > Len(items) THEN Parsed("", ws)
    ELSE
      LET prompt == items[i]
      IN  IF ~IsPrivate(prompt[1])
          THEN IF prompt[2].t = "other"
               \* `"choices" in 3`: argument of type 'int' is not iterable
               THEN Parsed("TypeError", ws)
               ELSE IF DictHas(FieldsOf(prompt[2]), "choices")
               THEN ParseCopierItems(items, i + 1,
                      Append(ws, CopierSelect(prompt[1], FieldsOf(prompt[2]))))
               ELSE ParseCopierItems(items, i + 1,
                      Append(ws, CopierText(prompt[1], FieldsOf(prompt[2]))))
          ELSE ParseCopierItems(items, i + 1, ws)

\* read_copier returns list(copier_handle.items())
parse_copier(handle) == ParseCopierItems(handle, 1, <<>>)

(***************************************************************************)
(* Resolving the context (the first half of the generate handlers).        *)
(***************************************************************************)
\* self.query(TextQuestion), self.query(SelectQuestion): in form order
QueryAll(ws, cls) == SelectSeq(ws, LAMBDA w : w.cls = cls)

Resolved(exc, context) == [exc |-> exc, context |-> context]

\* the value a legacy FreeText contributes
CookieTextValue(text) ==
    IF text.value # "" THEN text.value ELSE text.placeholder

RECURSIVE CookieTexts(_, _, _)
CookieTexts(textboxes, i, context) ==
    IF i > Len(textboxes) THEN Resolved("", context)
    ELSE CookieTexts(textboxes, i + 1,
           DictSet(context, textboxes[i].property_val,
                   CookieTextValue(textboxes[i])))

\* seq[index] of Python (0-based) on a TLA+ sequence
ItemAt(seq, index) ==
    IF index + 1 \in 1..Len(seq)
    THEN [exc |-> "", v |-> seq[index + 1]]
    ELSE [exc |-> "IndexError", v |-> ""]

\* mapping[key]
Lookup(mapping, key) ==
    IF DictHas(mapping, key)
    THEN [exc |-> "", v |-> DictGet(mapping, key)]
    ELSE [exc |-> "KeyError", v |-> ""]

\* the index of Select._options both handlers read for an unselected Choice
DefaultOptionIndex == 1

\* the value a legacy Choice contributes
CookieSelectValue(select) ==
    IF ~select.blank
    THEN IF select.extras.some
         THEN Lookup(select.extras.map, select.value)
         ELSE [exc |-> "", v |-> select.value]
    ELSE IF select.extras.some
    THEN LET opt == ItemAt(SelectOptions(select), DefaultOptionIndex)
         IN  IF opt.exc # "" THEN opt ELSE Lookup(select.extras.map, opt.v)
    ELSE ItemAt(SelectOptions(select), DefaultOptionIndex)

RECURSIVE CookieSelects(_, _, _)
CookieSelects(selects, i, context) ==
    IF i > Len(selects) THEN Resolved("", context)
    ELSE LET r == CookieSelectValue(selects[i])
         IN  IF r.exc # "" THEN Resolved(r.exc, context)
             ELSE CookieSelects(selects, i + 1,
                    DictSet(context, selects[i].property_val, r.v))

\* CookieContext with the two loops in the other order
CookieContextSelectsFirst(ws) ==
    LET selects == CookieSelects(QueryAll(ws, "SelectQuestion"), 1, <<>>)
    IN  IF selects.exc # "" THEN selects
        ELSE CookieTexts(QueryAll(ws, "TextQuestion"), 1, selects.context)

CookieContext(ws) ==
    LET texts == CookieTexts(QueryAll(ws, "TextQuestion"), 1, <<>>)
    IN  CookieSelects(QueryAll(ws, "SelectQuestion"), 1, texts.context)

\* CopierTextValue with the fallback of the legacy handler (the line left
\* commented out after the return) in place of the return
CopierTextValuePlaceholder(text) ==
    [exc |-> "", v |-> IF text.value # "" THEN text.value ELSE text.placeholder]

\* what the structured handler does with one FreeText: its value, or the
\* early return
CopierTextValue(text) ==
    IF text.value # ""
    THEN [exc |-> "", v |-> text.value]
    ELSE [exc |-> "return", v |-> ""]

\* CopierTexts with `continue` for `return`: an empty FreeText is left out
\* and the loop goes on
RECURSIVE CopierTextsContinuing(_, _, _)
CopierTextsContinuing(textboxes, i, context) ==
    IF i > Len(textboxes) THEN Resolved("", context)
    ELSE LET r == CopierTextValue(textboxes[i])
         IN  CopierTextsContinuing(textboxes, i + 1,
               IF r.exc # "" THEN context
               ELSE DictSet(context, textboxes[i].property_val, r.v))

RECURSIVE CopierTexts(_, _, _)
CopierTexts(textboxes, i, context) ==
    IF i > Len(textboxes) THEN Resolved("", context)
    ELSE LET r == CopierTextValue(textboxes[i])
         IN  IF r.exc # "" THEN Resolved(r.exc, context)
             ELSE CopierTexts(textboxes, i + 1,
                    DictSet(context, textboxes[i].property_val, r.v))

\* CopierSelectValue that never consults the mapping
CopierSelectValueRaw(select) ==
    IF ~select.blank
    THEN [exc |-> "", v |-> select.value]
    ELSE ItemAt(SelectOptions(select), DefaultOptionIndex)

\* the value a structured Choice contributes
CopierSelectValue(select) ==
    IF ~select.blank
    THEN IF ~select.extras.some
         THEN [exc |-> "", v |-> select.value]
         ELSE Lookup(select.extras.map, select.value)
    ELSE ItemAt(SelectOptions(select), DefaultOptionIndex)

RECURSIVE CopierSelects(_, _, _)
CopierSelects(selects, i, context) ==
    IF i > Len(selects) THEN Resolved("", context)
    ELSE LET r == CopierSelectValue(selects[i])
         IN  IF r.exc # "" THEN Resolved(r.exc, context)
             ELSE CopierSelects(selects, i + 1,
                    DictSet(context, selects[i].property_val, r.v))

CopierContext(ws) ==
    LET texts == CopierTexts(QueryAll(ws, "TextQuestion"), 1, <<>>)
    IN  IF texts.exc # "" THEN texts
        ELSE CopierSelects(QueryAll(ws, "SelectQuestion"), 1, texts.context)

(***************************************************************************)
(* Calling the backend (the second half of the generate handlers).  The    *)
(* handler's calls on the file system and the backend are recorded, in     *)
(* order, as events.                                                       *)
(***************************************************************************)
\* str(self._template)
Template == "template"

FsEvent(op) ==
    [op |-> op, template |-> "", output |-> "tmp", context |-> <<>>,
     unsafe |-> FALSE, res |-> "ok"]

\* cookiecutter(template=, no_input=True, output_dir="tmp", extra_context=)
CookiecutterCall(context, res) ==
    [op |-> "cookiecutter", template |-> Template, output |-> "tmp",
     context |-> context, unsafe |-> FALSE, res |-> res]

\* run_copy(src_path=, dst_path="tmp", data=[, unsafe=True])
RunCopyCall(context, unsafe, res) ==
    [op |-> "run_copy", template |-> Template, output |-> "tmp",
     context |-> context, unsafe |-> unsafe, res |-> res]

\* what a call of the backend can do: return, raise the exception the
\* handler catches, raise anything else
CookieOutcomes == {"ok", "OutputDirExistsException", "RenderError"}

CopierOutcomes == {"ok", "UnsafeTemplateError", "RenderError"}

Rendered(result, events) == [result |-> result, events |-> events]

\* CookieRender with `except Exception:` for `except OutputDirExistsException:`
CookieRenderAnyError(context, r1, r2) ==
    LET first == <<FsEvent("mkdir"), CookiecutterCall(context, r1)>>
    IN  IF r1 # "ok"
        THEN Rendered(r2, first \o <<FsEvent("rmtree"), FsEvent("mkdir"),
                                     CookiecutterCall(context, r2)>>)
        ELSE Rendered(r1, first)

\* CookieRender whose retry sits in a try of its own that passes on failure
CookieRenderSwallowing(context, r1, r2) ==
    LET first == <<FsEvent("mkdir"), CookiecutterCall(context, r1)>>
    IN  IF r1 = "OutputDirExistsException"
        THEN Rendered("ok", first \o <<FsEvent("rmtree"), FsEvent("mkdir"),
                                       CookiecutterCall(context, r2)>>)
        ELSE Rendered(r1, first)

\* lines 382-399; r1 and r2 are the outcomes of the first and second call
CookieRender(context, r1, r2) ==
    LET first == <<FsEvent("mkdir"), CookiecutterCall(context, r1)>>
    IN  IF r1 = "OutputDirExistsException"
        THEN Rendered(r2, first \o <<FsEvent("rmtree"), FsEvent("mkdir"),
                                     CookiecutterCall(context, r2)>>)
        ELSE Rendered(r1, first)

\* CopierRender with `except Exception:` for `except UnsafeTemplateError:`
CopierRenderAnyError(context, r1, r2) ==
    LET first == <<FsEvent("mkdir"), RunCopyCall(context, FALSE, r1)>>
    IN  IF r1 # "ok"
        THEN Rendered(r2, first \o <<RunCopyCall(context, TRUE, r2)>>)
        ELSE Rendered(r1, first)

\* lines 434-446
CopierRender(context, r1, r2) ==
    LET first == <<FsEvent("mkdir"), RunCopyCall(context, FALSE, r1)>>
    IN  IF r1 = "UnsafeTemplateError"
        THEN Rendered(r2, first \o <<RunCopyCall(context, TRUE, r2)>>)
        ELSE Rendered(r1, first)

\* what the last handler run did
Ran(handler, result, context, events) ==
    [handler |-> handler, result |-> result, context |-> context,
     events |-> events]

call_cookie_template(ws, r1, r2) ==
    LET resolved == CookieContext(ws)
    IN  IF resolved.exc # ""
        THEN Ran("generate", resolved.exc, resolved.context, <<>>)
        ELSE LET done == CookieRender(resolved.context, r1, r2)
             IN  Ran("generate", done.result, resolved.context, done.events)

call_copier_template(ws, r1, r2) ==
    LET resolved == CopierContext(ws)
    IN  IF resolved.exc # ""
        THEN Ran("generate", resolved.exc, resolved.context, <<>>)
        ELSE LET done == CopierRender(resolved.context, r1, r2)
             IN  Ran("generate", done.result, resolved.context, done.events)

(***************************************************************************)
(* The schema files the model is run on.                                   *)
(***************************************************************************)
Licenses == <<"MIT", "BSD", "GPL", "ISC">>

LicenseLabels == <<"MIT License", "BSD License", "GPL License", "ISC License">>

ChoiceLabels == <<"Alpha", "Beta", "Gamma", "Delta">>

ChoiceValues == <<"a", "b", "c", "d">>

OptionCounts == 0..MaxOpts

\* {keys[i]: values[i]} over the first n entries
Zip(keys, values, n) == [i \in 1..Min(n, Len(keys)) |-> <<keys[i], values[i]>>]

\* every dict whose keys are distinct keys of S, in any order, each with a
\* value from Decls(k)
RECURSIVE DictsOver(_, _)
DictsOver(S, Decls) ==
    {<<>>} \cup
    UNION {{<<<<k, v>>>> \o rest : v \in Decls[k], rest \in DictsOver(S \ {k}, Decls)}
           : k \in S}

\* cookiecutter.json without "__prompts__": any key with any value
CookieKeys == {"project_name", "license", "_extensions"}

CookieValues ==
    {Str("My Project"), Other} \cup {Lst(Prefix(Licenses, n)) : n \in OptionCounts}

PlainCookieSchemas ==
    {[hasPrompts |-> FALSE, prompts |-> <<>>, items |-> items]
       : items \in DictsOver(CookieKeys, [k \in CookieKeys |-> CookieValues])}

\* cookiecutter.json with "__prompts__": a declaration is the key's
\* top-level value (absent: no such top-level key) and its prompts entry
Declared(value, entry) == [has |-> TRUE, value |-> value, entry |-> entry]

Undeclared(entry) == [has |-> FALSE, value |-> Other, entry |-> entry]

\* a label table {value: label, ...}, with or without its "__prompt__"
LabelTable(n, labels, withPrompt) ==
    Map(Zip(Licenses, labels, n)
        \o (IF withPrompt THEN <<<<"__prompt__", "Pick a license">>>> ELSE <<>>))

SameLabels == <<"Open source", "Open source", "Open source", "Open source">>

PromptedKeys == {"project_name", "license"}

PromptedDecls ==
    [k \in PromptedKeys |->
       IF k = "project_name"
       THEN {Declared(Str("My Project"), Str("Project name")),
             Declared(Other, Str("Project name")),
             Undeclared(Str("Project name"))}
       ELSE {Declared(Lst(Prefix(Licenses, n)), Str("License")) : n \in OptionCounts}
            \cup {Declared(Lst(Prefix(Licenses, n)), LabelTable(n, labels, withPrompt))
                    : n \in OptionCounts, labels \in {LicenseLabels, SameLabels},
                      withPrompt \in BOOLEAN}]

PromptedSchema(decls) ==
    [hasPrompts |-> TRUE,
     prompts |-> [i \in 1..Len(decls) |-> <<decls[i][1], decls[i][2].entry>>],
     items |-> LET present == SelectSeq(decls, LAMBDA p : p[2].has)
               IN  [i \in 1..Len(present) |-> <<present[i][1], present[i][2].value>>]]

PromptedCookieSchemas ==
    {PromptedSchema(decls) : decls \in DictsOver(PromptedKeys, PromptedDecls)}

\* copier.yml: a record is a dict of the fields it declares, or, for a
\* malformed or shorthand entry, a plain string or a number
WithFields(rec, chosen) == Map(SelectSeq(rec, LAMBDA p : p[1] \in chosen))

TextRecord ==
    <<<<"help", Str("Project name")>>, <<"default", Str("My Project")>>,
      <<"placeholder", Str("e.g. demo")>>>>

ChoiceRecords ==
    {Map(<<<<"choices", choices>>>> \o help)
       : choices \in {Lst(Prefix(ChoiceLabels, n)) : n \in OptionCounts}
                     \cup {Map(Zip(ChoiceLabels, ChoiceValues, n)) : n \in OptionCounts},
         help \in {<<>>, <<<<"help", Str("Pick one")>>>>}}

CopierKeys == {"project_name", "author", "name", "_subdirectory"}

CopierDecls ==
    [k \in CopierKeys |->
       CASE k = "project_name" ->
              {WithFields(TextRecord, chosen)
                 : chosen \in SUBSET {"help", "default", "placeholder"}}
         [] k = "author" -> {Map(<<>>), Str("Ann"), Other}
         [] k = "name" -> ChoiceRecords
         [] k = "_subdirectory" -> {Str("template")}]

CopierSchemas == DictsOver(CopierKeys, CopierDecls)

\* what the user can type into an Input
TypedText == {"", "Widget"}

(***************************************************************************)
(* The state machine.                                                      *)
(***************************************************************************)
Idle(handler) == Ran(handler, "ok", <<>>, <<>>)

\* TestApp.__init__, on a template whose schema file is any of the above
Init ==
    /\ backend \in {"cookie", "copier"}
    /\ schema \in (IF backend = "cookie"
                   THEN PlainCookieSchemas \cup PromptedCookieSchemas
                   ELSE CopierSchemas)
    /\ stage = "new"
    /\ widgets = <<>>
    /\ last = Idle("init")

\* TestApp.compose: the form is built, or the parser's exception ends the app
Compose ==
    /\ stage = "new"
    /\ LET parsed == IF backend = "copier"
                     THEN parse_copier(schema)
                     ELSE parse_cookie_cutter(schema)
       IN  /\ stage' = IF parsed.exc = "" THEN "form" ELSE "crashed"
           /\ widgets' = IF parsed.exc = "" THEN parsed.ws ELSE <<>>
           /\ last' = Ran("compose", IF parsed.exc = "" THEN "ok" ELSE parsed.exc,
                          <<>>, <<>>)
    /\ UNCHANGED <<backend, schema>>

\* the user types into the Input of a TextQuestion
EditText ==
    /\ stage = "form"
    /\ \E i \in 1..Len(widgets), text \in TypedText :
         /\ widgets[i].cls = "TextQuestion"
         /\ widgets' = [widgets EXCEPT ![i].value = text]
    /\ last' = Idle("edit")
    /\ UNCHANGED <<backend, schema, stage>>

\* the user picks an option of the Select of a SelectQuestion
PickOption ==
    /\ stage = "form"
    /\ \E i \in 1..Len(widgets) :
         /\ widgets[i].cls = "SelectQuestion"
         /\ \E line \in SeqToSet(widgets[i].lines) :
              widgets' = [widgets EXCEPT ![i].value = line, ![i].blank = FALSE]
    /\ last' = Idle("edit")
    /\ UNCHANGED <<backend, schema, stage>>

\* the user picks the blank entry of the Select
PickBlank ==
    /\ stage = "form"
    /\ \E i \in 1..Len(widgets) :
         /\ widgets[i].cls = "SelectQuestion"
         /\ widgets' = [widgets EXCEPT ![i].value = "", ![i].blank = TRUE]
    /\ last' = Idle("edit")
    /\ UNCHANGED <<backend, schema, stage>>

\* Generate as a submit that resets the form: every Input and Select is
\* cleared once the handler has run
GenerateClearing ==
    /\ stage = "form"
    /\ IF backend = "copier"
       THEN \E r1 \in CopierOutcomes, r2 \in CopierOutcomes :
              last' = call_copier_template(widgets, r1, r2)
       ELSE \E r1 \in CookieOutcomes, r2 \in CookieOutcomes :
              last' = call_cookie_template(widgets, r1, r2)
    /\ widgets' = [i \in 1..Len(widgets) |->
                     [widgets[i] EXCEPT !.value = "", !.blank = TRUE]]
    /\ UNCHANGED <<backend, schema, stage>>

\* TestApp.action_dump_values, the "Generate Template" binding
Generate ==
    /\ stage = "form"
    /\ IF backend = "copier"
       THEN \E r1 \in CopierOutcomes, r2 \in CopierOutcomes :
              last' = call_copier_template(widgets, r1, r2)
       ELSE \E r1 \in CookieOutcomes, r2 \in CookieOutcomes :
              last' = call_cookie_template(widgets, r1, r2)
    /\ UNCHANGED <<backend, schema, stage, widgets>>

Next == Compose \/ EditText \/ PickOption \/ PickBlank \/ Generate

Spec == Init /\ [][Next]_vars

(***************************************************************************)
(* Properties.                                                             *)
(***************************************************************************)
\* the last handler run was a generate action of the given backend
Generated(b) == stage = "form" /\ backend = b /\ last.handler = "generate"

\* the events of the last handler run that are calls of op, in order
Calls(op) == SelectSeq(last.events, LAMBDA e : e.op = op)

SameArguments(a, b) ==
    /\ a.template = b.template
    /\ a.context = b.context
    /\ a.output = b.output

\* C1: a legacy generate action calls cookiecutter at most twice; it calls
\* it a second time exactly when the first call raised
\* OutputDirExistsException, after one rmtree and one mkdir of the output
\* directory and with the arguments of the first call; the outcome of the
\* last call (its exception included) is the outcome of the action.
C1_LegacyRetryOnce ==
    Generated("cookie") =>
      LET calls == Calls("cookiecutter")
      IN  /\ Len(calls) <= 2
          /\ (Len(calls) = 2) <=>
               (Len(calls) >= 1 /\ calls[1].res = "OutputDirExistsException")
          /\ Len(calls) = 2 =>
               /\ last.events = <<FsEvent("mkdir"), calls[1], FsEvent("rmtree"),
                                  FsEvent("mkdir"), calls[2]>>
               /\ SameArguments(calls[1], calls[2])
               /\ ~calls[2].unsafe /\ ~calls[1].unsafe
               /\ last.result = calls[2].res
          /\ Len(calls) = 1 =>
               /\ Len(Calls("rmtree")) = 0
               /\ last.result = calls[1].res
          /\ Len(calls) = 0 => last.events = <<>>

\* a collision, then a successful retry: success after one recreation
C1_Witness ==
    /\ Generated("cookie")
    /\ Len(Calls("cookiecutter")) = 2
    /\ Calls("cookiecutter")[1].res = "OutputDirExistsException"
    /\ Calls("cookiecutter")[2].res = "ok"
    /\ Len(Calls("rmtree")) = 1
    /\ last.result = "ok"
    /\ last.context # <<>>

\* C2: the first run_copy of a structured generate action never passes
\* unsafe; a call with unsafe=True happens only as the second call, after
\* the first raised UnsafeTemplateError, at most once, with the template,
\* context and destination of the first; its outcome is the outcome of the
\* action.
C2_UnsafeEscalationOnce ==
    Generated("copier") =>
      LET calls == Calls("run_copy")
      IN  /\ Len(calls) <= 2
          /\ Len(calls) >= 1 => ~calls[1].unsafe
          /\ (Len(calls) = 2) <=>
               (Len(calls) >= 1 /\ calls[1].res = "UnsafeTemplateError")
          /\ Len(calls) = 2 =>
               /\ calls[2].unsafe
               /\ SameArguments(calls[1], calls[2])
               /\ last.result = calls[2].res
          /\ Len(calls) = 1 => last.result = calls[1].res

\* an escalated retry that fails again
C2_Witness ==
    /\ Generated("copier")
    /\ Len(Calls("run_copy")) = 2
    /\ Calls("run_copy")[1].res = "UnsafeTemplateError"
    /\ Calls("run_copy")[2].unsafe
    /\ Calls("run_copy")[2].res = "UnsafeTemplateError"
    /\ last.result = "UnsafeTemplateError"

\* the context of the last generate action was resolved and handed to the
\* backend
Rendering == Len(last.events) > 0

IsText(w) == w.cls = "TextQuestion"

IsSelect(w) == w.cls = "SelectQuestion"

\* the keys of the model that start with an underscore
StartsWithUnderscore(key) == key \in {"_extensions", "_subdirectory"}

\* the default the schema declares for the key of FreeText w ("": none)
DeclaredDefault(w) ==
    IF backend = "cookie"
    THEN DictGet(schema.items, w.property_val).s
    ELSE LET rec == FieldsOf(DictGet(schema, w.property_val))
         IN  IF DictHas(rec, "default") THEN DictGet(rec, "default").s ELSE ""

\* C3: a structured generate action with an empty FreeText whose record
\* declares no default makes no call at all (no mkdir, no run_copy, so no
\* context reaches the backend) and ends by the handler's early return.
C3_AbortWithoutRender ==
    (Generated("copier")
       /\ \E i \in 1..Len(widgets) :
            /\ IsText(widgets[i])
            /\ widgets[i].value = ""
            /\ DeclaredDefault(widgets[i]) = "")
    => (last.events = <<>> /\ last.result = "return")

\* the abort happens on the second FreeText, after the first was resolved
\* into the handler's local context
C3_Witness ==
    /\ Generated("copier")
    /\ Len(QueryAll(widgets, "TextQuestion")) = 2
    /\ QueryAll(widgets, "TextQuestion")[1].value # ""
    /\ QueryAll(widgets, "TextQuestion")[2].value = ""
    /\ DeclaredDefault(QueryAll(widgets, "TextQuestion")[2]) = ""
    /\ Len(last.context) = 1
    /\ last.events = <<>>
    /\ last.result = "return"

\* C4: in a generate action in which every empty FreeText has a non-empty
\* declared default, under either dialect, the action does not abort and
\* each such FreeText resolves to its declared default.
C4_DefaultFallback ==
    (/\ stage = "form"
     /\ last.handler = "generate"
     /\ \A i \in 1..Len(widgets) :
          (IsText(widgets[i]) /\ widgets[i].value = "")
            => DeclaredDefault(widgets[i]) # "")
    => /\ last.result # "return"
       /\ \A i \in 1..Len(widgets) :
            (IsText(widgets[i]) /\ widgets[i].value = "")
              => /\ DictHas(last.context, widgets[i].property_val)
                 /\ DictGet(last.context, widgets[i].property_val)
                      = DeclaredDefault(widgets[i])

\* the options "at index 1" of Choice w: of its Select's option list, and
\* of the option list as declared
IndexOneOptions(w) ==
    (IF Len(SelectOptions(w)) >= 2 THEN {SelectOptions(w)[2]} ELSE {})
    \cup (IF Len(w.lines) >= 2 THEN {w.lines[2]} ELSE {})

\* C5: in a structured generate action that reaches the backend, a Choice
\* with a label->value mapping and no selection resolves to the mapped value
\* of its option at index 1.
C5_MappedDefault ==
    (Generated("copier") /\ Rendering)
    => \A i \in 1..Len(widgets) :
         (IsSelect(widgets[i]) /\ widgets[i].extras.some /\ widgets[i].blank)
           => /\ DictHas(last.context, widgets[i].property_val)
              /\ DictGet(last.context, widgets[i].property_val)
                   \in {DictGet(widgets[i].extras.map, label)
                          : label \in IndexOneOptions(widgets[i])}

\* labelToValue[label] when Choice w carries a mapping, label otherwise
Mapped(w, label) ==
    IF w.extras.some THEN DictGet(w.extras.map, label) ELSE label

\* C6 (as amended): in a legacy generate action that reaches the backend, a
\* Choice with no selection has a declared option and resolves to the first
\* one (index 0 of the declared list, index 1 of the Select's options, which
\* open with the blank entry), mapped through labelToValue when the Choice
\* carries one; when every unselected Choice has a declared option the
\* action reaches the backend.
C6_FirstDeclaredDefault ==
    Generated("cookie") =>
      /\ Rendering =>
           \A i \in 1..Len(widgets) :
             (IsSelect(widgets[i]) /\ widgets[i].blank)
               => /\ Len(widgets[i].lines) >= 1
                  /\ DictHas(last.context, widgets[i].property_val)
                  /\ DictGet(last.context, widgets[i].property_val)
                       = Mapped(widgets[i], widgets[i].lines[1])
      /\ (\A i \in 1..Len(widgets) :
            (IsSelect(widgets[i]) /\ widgets[i].blank) => Len(widgets[i].lines) >= 1)
         => Rendering

\* the scenario of spec section 8: {project_name: "My Project", license: ["MIT",
\* "BSD"]}, project_name edited to "Widget", license left unselected
C6_Witness ==
    /\ Generated("cookie")
    /\ schema = [hasPrompts |-> FALSE, prompts |-> <<>>,
                 items |-> <<<<"project_name", Str("My Project")>>,
                             <<"license", Lst(<<"MIT", "BSD">>)>>>>]
    /\ widgets[1].value = "Widget"
    /\ widgets[2].blank
    /\ last.result = "ok"
    /\ last.context = <<<<"project_name", "Widget">>, <<"license", "MIT">>>>

\* C6 (as stated): in a legacy generate action that reaches the backend, a
\* Choice with no selection and two declared options or more resolves to
\* the second declared option, mapped through labelToValue when present.
C6_SecondDeclaredDefault ==
    (Generated("cookie") /\ Rendering)
    => \A i \in 1..Len(widgets) :
         (IsSelect(widgets[i]) /\ widgets[i].blank /\ Len(widgets[i].lines) >= 2)
           => /\ DictHas(last.context, widgets[i].property_val)
              /\ DictGet(last.context, widgets[i].property_val)
                   = Mapped(widgets[i], widgets[i].lines[2])

\* C7: in a generate action of either dialect that reaches the backend,
\* every Choice with a selection resolves to labelToValue[selection] when it
\* carries a mapping and to the selection otherwise.
C7_SelectionResolved ==
    (stage = "form" /\ last.handler = "generate" /\ Rendering)
    => \A i \in 1..Len(widgets) :
         (IsSelect(widgets[i]) /\ ~widgets[i].blank)
           => /\ DictHas(last.context, widgets[i].property_val)
              /\ widgets[i].extras.some => DictHas(widgets[i].extras.map, widgets[i].value)
              /\ DictGet(last.context, widgets[i].property_val)
                   = Mapped(widgets[i], widgets[i].value)

\* the scenario of spec section 8: name: {choices: {Alpha: a, Beta: b}, help:
\* "Pick one"} with "Alpha" selected resolves to "a"
C7_Witness ==
    /\ Generated("copier")
    /\ schema = <<<<"name", Map(<<<<"choices", Map(<<<<"Alpha", "a">>, <<"Beta", "b">>>>)>>,
                                  <<"help", Str("Pick one")>>>>)>>>>
    /\ widgets[1].value = "Alpha"
    /\ ~widgets[1].blank
    /\ last.result = "ok"
    /\ last.context = <<<<"name", "a">>>>

\* the form's widget for a key
WidgetOf(key) ==
    widgets[CHOOSE i \in 1..Len(widgets) : widgets[i].property_val = key]

\* the prompts entries of a legacy schema that are label tables of a
\* list-valued key: <<key, table without "__prompt__">>
LabelTables ==
    LET tabled == SelectSeq(schema.prompts,
                    LAMBDA p : /\ p[2].t = "dict"
                               /\ DictHas(p[2].d, "__prompt__")
                               /\ DictHas(schema.items, p[1])
                               /\ DictGet(schema.items, p[1]).t = "list")
    IN  {<<tabled[i][1], DictDel(tabled[i][2].d, "__prompt__")>>
           : i \in 1..Len(tabled)}

\* the last key of table T that carries the label
LastKeyLabelled(T, label) ==
    LET j == CHOOSE j \in 1..Len(T) :
               /\ T[j][2] = label
               /\ \A later \in (j + 1)..Len(T) : T[later][2] # label
    IN  T[j][1]

\* C8 (as amended): the labelToValue M of the Choice built from a label
\* table T has the labels of T as its keys and maps each label to the last
\* key of T that carries it, so M[T[v]] = v for every key v whose label no
\* later key of T repeats, and M is the exact inverse of T when the labels
\* of T are pairwise distinct.
C8_InverseUpToRepeatedLabels ==
    (stage = "form" /\ backend = "cookie" /\ schema.hasPrompts)
    => \A kt \in LabelTables :
         LET T == kt[2]
             w == WidgetOf(kt[1])
             M == w.extras.map
         IN  /\ IsSelect(w) /\ w.extras.some
             /\ SeqToSet(DictKeys(M)) = SeqToSet(DictValues(T))
             /\ \A j \in 1..Len(T) :
                  /\ DictHas(M, T[j][2])
                  /\ DictGet(M, T[j][2]) = LastKeyLabelled(T, T[j][2])
                  /\ (\A later \in (j + 1)..Len(T) : T[later][2] # T[j][2])
                       => DictGet(M, T[j][2]) = T[j][1]

\* a form built from a table of two keys with two different labels
C8_Witness ==
    /\ stage = "form" /\ backend = "cookie" /\ schema.hasPrompts
    /\ \E kt \in LabelTables :
         /\ Len(kt[2]) = 2
         /\ kt[2][1][2] # kt[2][2][2]
         /\ WidgetOf(kt[1]).extras.map
              = <<<<kt[2][1][2], kt[2][1][1]>>, <<kt[2][2][2], kt[2][2][1]>>>>

\* C8 (as stated): M[T[v]] = v for every key v of every label table T.
C8_ExactInverse ==
    (stage = "form" /\ backend = "cookie" /\ schema.hasPrompts)
    => \A kt \in LabelTables :
         LET T == kt[2]
             w == WidgetOf(kt[1])
             M == w.extras.map
         IN  /\ IsSelect(w) /\ w.extras.some
             /\ \A j \in 1..Len(T) :
                  /\ DictHas(M, T[j][2])
                  /\ DictGet(M, T[j][2]) = T[j][1]

\* the top-level entries of a schema without "__prompts__" that the spec
\* turns into Questions: key not starting with "_", value a string or a list
PublicItems ==
    SelectSeq(schema.items,
              LAMBDA p : ~StartsWithUnderscore(p[1]) /\ p[2].t \in {"str", "list"})

\* C9: the form of a legacy schema without "__prompts__" has exactly one
\* Question per top-level key that does not start with "_" and whose value
\* is a string or a list, in the schema's key order: a FreeText with the
\* string as placeholder for a string, a Choice with the list as options and
\* no labelToValue for a list, each labelled with its key; keys starting
\* with "_" give no Question.
C9_PlainSchemaQuestions ==
    (stage = "form" /\ backend = "cookie" /\ ~schema.hasPrompts)
    => /\ Len(widgets) = Len(PublicItems)
       /\ \A i \in 1..Len(PublicItems) :
            LET key == PublicItems[i][1]
                v == PublicItems[i][2]
                w == widgets[i]
            IN  /\ w.property_val = key
                /\ w.prompt = key
                /\ v.t = "str" =>
                     /\ IsText(w)
                     /\ w.placeholder = v.s
                /\ v.t = "list" =>
                     /\ IsSelect(w)
                     /\ w.lines = v.l
                     /\ ~w.extras.some
       /\ \A i \in 1..Len(widgets) : ~StartsWithUnderscore(widgets[i].property_val)

\* a schema of three keys, a list, a "_" key and a string, before any edit
C9_Witness ==
    /\ stage = "form" /\ backend = "cookie" /\ ~schema.hasPrompts
    /\ last.handler = "compose"
    /\ Len(schema.items) = 3
    /\ schema.items[1][2].t = "list" /\ Len(schema.items[1][2].l) = 2
    /\ StartsWithUnderscore(schema.items[2][1])
    /\ schema.items[3][2].t = "str"
    /\ Len(widgets) = 2
    /\ IsSelect(widgets[1]) /\ IsText(widgets[2])

\* the top-level entries of a structured schema whose key does not start
\* with "_"
PublicRecords == SelectSeq(schema, LAMBDA p : ~StartsWithUnderscore(p[1]))

\* C10: the form of a structured schema has one Question per key that does
\* not start with "_", in order, and the Question of a record whose choices
\* is a mapping is a Choice whose labelToValue is that mapping, whose options
\* are the mapping's keys in order and whose label is the record's help when
\* it has one and the key otherwise.
C10_ChoicesMappingKept ==
    (stage = "form" /\ backend = "copier")
    => /\ Len(widgets) = Len(PublicRecords)
       /\ \A i \in 1..Len(PublicRecords) :
            LET key == PublicRecords[i][1]
                rec == PublicRecords[i][2].d
                w == widgets[i]
            IN  (/\ PublicRecords[i][2].t = "dict"
                 /\ DictHas(rec, "choices")
                 /\ DictGet(rec, "choices").t = "dict")
                => /\ IsSelect(w)
                   /\ w.property_val = key
                   /\ w.extras.some
                   /\ w.extras.map = DictGet(rec, "choices").d
                   /\ w.lines = DictKeys(DictGet(rec, "choices").d)
                   /\ w.prompt = IF DictHas(rec, "help")
                                 THEN DictGet(rec, "help").s ELSE key

\* a mapping of two labels with a help text, after a FreeText and a "_" key
C10_Witness ==
    /\ stage = "form" /\ backend = "copier"
    /\ Len(schema) = 3
    /\ StartsWithUnderscore(schema[1][1])
    /\ Len(widgets) = 2
    /\ IsText(widgets[1])
    /\ IsSelect(widgets[2])
    /\ widgets[2].prompt = "Pick one"
    /\ widgets[2].lines = <<"Alpha", "Beta">>
    /\ widgets[2].extras.map = <<<<"Alpha", "a">>, <<"Beta", "b">>>>

\* the keys of the form's Questions, in form order
QuestionKeys == [i \in 1..Len(widgets) |-> widgets[i].property_val]

\* the entries of the schema that have a recognized shape, in schema order:
\* a string or list under a key not starting with "_" (Simple); a prompts
\* key with a string or list top-level value, whose prompts entry, when it
\* is a mapping, has "__prompt__" (Simple with "__prompts__"); an object
\* under a key not starting with "_" (Structured)
RecognizedKeys ==
    IF backend = "copier"
    THEN DictKeys(SelectSeq(PublicRecords, LAMBDA p : p[2].t = "dict"))
    ELSE IF ~schema.hasPrompts
    THEN DictKeys(PublicItems)
    ELSE DictKeys(SelectSeq(schema.prompts,
           LAMBDA p : /\ DictHas(schema.items, p[1])
                      /\ DictGet(schema.items, p[1]).t \in {"str", "list"}
                      /\ (DictGet(schema.items, p[1]).t = "list" /\ p[2].t = "dict")
                           => DictHas(p[2].d, "__prompt__")))

\* C11: building the form never raises, and the form has a Question for
\* exactly the schema entries of recognized shape, in order: every other
\* entry is skipped without an error.
C11_MalformedSkipped ==
    stage # "new" =>
      /\ stage = "form"
      /\ QuestionKeys = RecognizedKeys

\* the exception of the backend that the handler catches
Retryable == IF backend = "cookie" THEN "OutputDirExistsException"
             ELSE "UnsafeTemplateError"

\* the backend calls of the last handler run, in order
RenderCalls == SelectSeq(last.events, LAMBDA e : e.op \in {"cookiecutter", "run_copy"})

\* C12: in a generate action of either backend, a first render call that
\* fails with anything but the backend's retryable exception, and a second
\* render call that fails with anything at all, is the last thing the
\* handler does, and its exception is the outcome of the action.
C12_FatalErrorsPropagate ==
    (stage = "form" /\ last.handler = "generate" /\ Rendering) =>
      LET calls == RenderCalls
          final == last.events[Len(last.events)]
      IN  /\ Len(calls) >= 1
          /\ calls[1].res \notin {"ok", Retryable} =>
               /\ Len(calls) = 1
               /\ final = calls[1]
               /\ last.result = calls[1].res
          /\ (Len(calls) >= 2 /\ calls[2].res # "ok") =>
               /\ Len(calls) = 2
               /\ final = calls[2]
               /\ last.result = calls[2].res

\* an escalated retry of the structured backend that fails with another
\* error
C12_Witness ==
    /\ Generated("copier")
    /\ Len(RenderCalls) = 2
    /\ RenderCalls[1].res = "UnsafeTemplateError"
    /\ RenderCalls[2].res = "RenderError"
    /\ last.result = "RenderError"

KeysOf(cls) ==
    LET ws == QueryAll(widgets, cls)
    IN  [i \in 1..Len(ws) |-> ws[i].property_val]

\* C15: the context a generate action of either backend hands to the
\* render call has one entry per question widget, its key set is the set of
\* the widgets' keys, and its entries are the FreeText keys in form order
\* followed by the Choice keys in form order.
C15_TextsThenSelects ==
    (stage = "form" /\ last.handler = "generate" /\ Rendering) =>
      /\ Len(last.context) = Len(widgets)
      /\ SeqToSet(DictKeys(last.context)) = SeqToSet(QuestionKeys)
      /\ DictKeys(last.context) = KeysOf("TextQuestion") \o KeysOf("SelectQuestion")

\* a Choice stands before a FreeText in the form, and the context that
\* reached the render call has the FreeText first
C15_Witness ==
    /\ stage = "form"
    /\ last.handler = "generate"
    /\ Rendering
    /\ Len(widgets) >= 2
    /\ IsSelect(widgets[1])
    /\ IsText(widgets[2])
    /\ last.context[1][1] = widgets[2].property_val

\* C15 as the spec has it: the entries of the resolved context stand in
\* question order.
C15_QuestionOrder ==
    (stage = "form" /\ last.handler = "generate" /\ Rendering) =>
      DictKeys(last.context) = QuestionKeys

\* C16: a legacy generate action never ends in an exception of the
\* resolution (an option index out of range, a label missing from the
\* mapping) nor in an early return, and its context has a value for the key
\* of every question widget, whatever the schema and the answers.
C16_LegacyNeverAborts ==
    Generated("cookie") =>
      /\ last.result \notin {"IndexError", "KeyError", "TypeError", "return"}
      /\ \A i \in 1..Len(widgets) :
           DictHas(last.context, widgets[i].property_val)

====
